---- MODULE Spec2Model ----
(***************************************************************************)
(* A model of ai-services/src/recommendation/collaborative_filter.py:      *)
(* CollaborativeFilter, ContentBasedFilter and HybridRecommendationEngine. *)
(*                                                                         *)
(* Scores are exact rationals <<numerator, denominator>>; floating-point   *)
(* rounding is not modelled.  Positions in an index are 1-based here and   *)
(* 0-based in pandas/numpy.  Python's None is the empty sequence <<>> and  *)
(* a present value x is <<x>>.                                             *)
(***************************************************************************)
EXTENDS Integers, Sequences, FiniteSets, TLC

\* ------------------------------------------------------------------ bounds

\* The most rows of a ratings_data table.
MaxRecords == 2
\* The largest n_recommendations a caller passes (the smallest is -1).
MaxN == 2
\* The most candidates in a list passed to combine_recommendations.
MaxList == 2
\* The most train calls begun while the threads of SpecThreads run.
MaxTrains == 2
\* The most rows of a books_data catalog.
MaxCatalog == 2
\* The most candidates in a list of the social adapter.
MaxSocial == 1
\* The most rows of a ratings_data table over three books.
MaxRankedRecords == 3
\* The most neighbours in a similar_users list handed to predict_rating.
MaxNeighbours == 2
\* The most book ids in the reading_history handed to calculate_content_score.
MaxHistory == 2
\* CollaborativeFilter.__init__'s default n_components, and top_k at the call
\* in get_user_recommendations.
DefaultRank == 50
TopK == 50

\* The user and book labels of training data and requests (pandas orders
\* labels, so they are integers here), and the ratings of a record; an
\* absent record is the fillna(0) cell.
UserIds == {1, 2}
BookIds == {1, 2}
RatingValues == {1, 2}
Ranks == {1, 2, DefaultRank}
NValues == (-1)..MaxN
\* cosine_similarity values the model distinguishes: -1.0, 0.0, 1.0 (exactly
\* the values a rank-1 factorization yields).
SimVals == {-1, 0, 1}

\* ------------------------------------------------------------- arithmetic

Abs(x) == IF x < 0 THEN -x ELSE x

RECURSIVE GCD(_, _)
GCD(a, b) == IF b = 0 THEN a ELSE GCD(b, a % b)

\* The rational n/d (d > 0) in lowest terms.
Rat(n, d) ==
  LET g == GCD(Abs(n), d)
  IN  IF n = 0 THEN <<0, 1>> ELSE <<n \div g, d \div g>>

Zero == <<0, 1>>
RAdd(a, b) == Rat(a[1] * b[2] + b[1] * a[2], a[2] * b[2])
RMul(a, b) == Rat(a[1] * b[1], a[2] * b[2])
RLess(a, b) == a[1] * b[2] < b[1] * a[2]
RMax(a, b) == IF RLess(a, b) THEN b ELSE a

\* ------------------------------------------------------------ list helpers

None == <<>>
Some(x) == <<x>>
IsNone(o) == o = <<>>

Range(s) == {s[i] : i \in 1..Len(s)}

\* The ascending sequence of a finite set of integers (pandas sorts the
\* labels of a pivot).
RECURSIVE SortedSeq(_)
SortedSeq(S) ==
  IF S = {} THEN <<>>
  ELSE LET m == CHOOSE x \in S : \A y \in S : x <= y
       IN  <<m>> \o SortedSeq(S \ {m})

\* Index.get_loc: the position of a label in an index (the caller checks
\* membership; a missing label is a KeyError).
GetLoc(index, label) == CHOOSE i \in 1..Len(index) : index[i] = label

\* Python's s[:n]: the first n elements, or all but the last -n when n < 0.
SliceTo(s, n) ==
  LET m == IF n >= 0 THEN (IF n < Len(s) THEN n ELSE Len(s))
                     ELSE (IF Len(s) + n > 0 THEN Len(s) + n ELSE 0)
  IN  SubSeq(s, 1, m)

\* list.sort(key=..., reverse=True): descending by key and stable (elements
\* with equal keys keep their order).  keys[i] is the rational key of s[i];
\* the sort is an insertion of each position, left to right, behind every
\* position whose key is not smaller.
RECURSIVE InsertDescBeforeEqual(_, _, _)
InsertDescBeforeEqual(i, perm, keys) ==
  IF perm = <<>> THEN <<i>>
  ELSE IF ~RLess(keys[i], keys[perm[1]]) THEN <<i>> \o perm
       ELSE <<perm[1]>> \o InsertDescBeforeEqual(i, Tail(perm), keys)

RECURSIVE InsertDesc(_, _, _)
InsertDesc(i, perm, keys) ==
  IF perm = <<>> THEN <<i>>
  ELSE IF RLess(keys[perm[1]], keys[i]) THEN <<i>> \o perm
       ELSE <<perm[1]>> \o InsertDesc(i, Tail(perm), keys)

RECURSIVE SortPerm(_, _)
SortPerm(m, keys) ==
  IF m = 0 THEN <<>> ELSE InsertDesc(m, SortPerm(m - 1, keys), keys)

SortDesc(s, keys) ==
  LET perm == SortPerm(Len(s), keys)
  IN  [j \in 1..Len(s) |-> s[perm[j]]]

\* ---------------------------------------------------- training-time inputs

\* A row of ratings_data.
RatingRecords == [user_id : UserIds, book_id : BookIds, rating : RatingValues]

\* ratings_data: a non-empty table of at most MaxRecords rows.
RatingsData == {D \in SUBSET RatingRecords : D # {} /\ Cardinality(D) <= MaxRecords}

\* ------------------------------------------------------ CollaborativeFilter

\* DataFrame.pivot raises ValueError ("Index contains duplicate entries")
\* when two rows share (user_id, book_id).
HasDuplicateEntries(data) ==
  \E r1, r2 \in data :
     r1 # r2 /\ r1.user_id = r2.user_id /\ r1.book_id = r2.book_id

\* ratings_data.pivot(index='user_id', columns='book_id',
\* values='rating').fillna(0): labels sorted ascending, cells by position.
Pivot(data) ==
  LET index == SortedSeq({r.user_id : r \in data})
      columns == SortedSeq({r.book_id : r \in data})
      Cell(u, b) ==
        IF \E r \in data : r.user_id = u /\ r.book_id = b
        THEN (CHOOSE r \in data : r.user_id = u /\ r.book_id = b).rating
        ELSE 0
  IN  [index |-> index,
       columns |-> columns,
       values |-> [i \in 1..Len(index) |->
                     [j \in 1..Len(columns) |-> Cell(index[i], columns[j])]]]

\* TruncatedSVD.fit_transform raises ValueError when n_components exceeds
\* the number of columns (features) of the matrix.
SvdRejects(n_components, matrix) == n_components > Len(matrix.columns)

\* cosine_similarity(factors) for m vectors of which those in `zero` have
\* zero norm: a symmetric m x m matrix over SimVals, 1 on the diagonal, and
\* 0 in the row and column of a zero-norm vector (sklearn normalizes a
\* zero vector to itself).  The factor values themselves are the library's.
CosineSimilarities(m, zero) ==
  {S \in [1..m -> [1..m -> SimVals]] :
     \A i, j \in 1..m :
        /\ S[i][j] = S[j][i]
        /\ (i \in zero \/ j \in zero) => S[i][j] = 0
        /\ (i = j /\ i \notin zero) => S[i][j] = 1}

ZeroRows(matrix) ==
  {i \in 1..Len(matrix.index) :
     \A j \in 1..Len(matrix.columns) : matrix.values[i][j] = 0}

ZeroColumns(matrix) ==
  {j \in 1..Len(matrix.columns) :
     \A i \in 1..Len(matrix.index) : matrix.values[i][j] = 0}

\* self.item_similarity = cosine_similarity(item_factors): no code reads
\* it, so the model fixes one matrix of CosineSimilarities per training
\* matrix (the factorization is seeded, random_state=42): 1 on the diagonal
\* of the non-zero columns and 0 elsewhere.
ItemSimilarity(matrix) ==
  [i \in 1..Len(matrix.columns) |->
     [j \in 1..Len(matrix.columns) |->
        IF i = j /\ i \notin ZeroColumns(matrix) THEN 1 ELSE 0]]

\* CollaborativeFilter.__init__
NewCollaborativeFilter(n_components) ==
  [n_components |-> n_components,
   user_item_matrix |-> None,
   user_similarity |-> None,
   item_similarity |-> None]

\* get_similar_users: np.argsort(similarities)[::-1][1:top_k+1].  argsort
\* leaves the order of equal similarities to the sort; `order` is the
\* descending order it produced, a permutation of the positions.
DescendingOrders(similarities) ==
  LET m == Len(similarities)
  IN  {p \in [1..m -> 1..m] :
         /\ \A i, j \in 1..m : i # j => p[i] # p[j]
         /\ \A i \in 1..(m - 1) : similarities[p[i]] >= similarities[p[i + 1]]}

get_similar_users(similarities, order, top_k) ==
  LET m == Len(order)
      last == IF top_k + 1 < m THEN top_k + 1 ELSE m
  IN  [k \in 1..(last - 1) |-> <<order[k + 1], similarities[order[k + 1]]>>]

\* predict_rating: the similarity-weighted mean of the neighbours' positive
\* ratings of the book at column position col, 0 when the weights sum to 0.
\* IndexError when a neighbour's position is not a row of the matrix.
RECURSIVE WeightedSumOverAll(_, _, _)
WeightedSumOverAll(matrix, col, similar_users) ==
  IF similar_users = <<>> THEN <<0, 0>>
  ELSE LET rest == WeightedSumOverAll(matrix, col, Tail(similar_users))
           idx == similar_users[1][1]
           similarity == similar_users[1][2]
           rating == matrix.values[idx][col]
       IN  <<rest[1] + similarity * rating, rest[2] + Abs(similarity)>>

RECURSIVE WeightedSum(_, _, _)
WeightedSum(matrix, col, similar_users) ==
  IF similar_users = <<>> THEN <<0, 0>>
  ELSE LET rest == WeightedSum(matrix, col, Tail(similar_users))
           idx == similar_users[1][1]
           similarity == similar_users[1][2]
           rating == matrix.values[idx][col]
       IN  IF rating > 0
           THEN <<rest[1] + similarity * rating, rest[2] + Abs(similarity)>>
           ELSE rest

PredictRaises(matrix, similar_users) ==
  \E k \in 1..Len(similar_users) : similar_users[k][1] > Len(matrix.index)

PredictWeightedSum(matrix, col, similar_users) ==
  Rat(WeightedSum(matrix, col, similar_users)[1], 1)

PredictOneWithoutRaters(matrix, col, similar_users) ==
  LET sums == WeightedSum(matrix, col, similar_users)
  IN  IF sums[2] = 0 THEN <<1, 1>> ELSE Rat(sums[1], sums[2])

predict_rating(matrix, col, similar_users) ==
  LET sums == WeightedSum(matrix, col, similar_users)
  IN  IF sums[2] = 0 THEN Zero ELSE Rat(sums[1], sums[2])

\* An outcome of a call: kind is "ok" or the exception the call raises, and
\* value is the returned list (empty for an exception and for train).
Ok(value) == [kind |-> "ok", value |-> value]
Raises(kind) == [kind |-> kind, value |-> <<>>]

\* The user's row, read once at line 49.
UserRatings(matrix, user_idx) ==
  [index |-> matrix.index, labels |-> matrix.columns,
   vals |-> matrix.values[user_idx]]

\* Lines 55-63: a candidate for every column of the matrix the user has not
\* rated (cell = 0), in column order.  user_ratings[book_id] is a KeyError
\* when the row read at line 49 has no such label, and predict_rating an
\* IndexError when a neighbour is no row of the matrix.
RECURSIVE CandidatesOfEveryBook(_, _, _, _)
CandidatesOfEveryBook(matrix, user_ratings, similar_users, j) ==
  IF j > Len(matrix.columns) THEN Ok(<<>>)
  ELSE LET book_id == matrix.columns[j]
           rest == CandidatesOfEveryBook(matrix, user_ratings, similar_users, j + 1)
       IN  IF book_id \notin Range(user_ratings.labels) THEN Raises("KeyError")
           ELSE IF PredictRaises(matrix, similar_users)
                THEN Raises("IndexError")
           ELSE IF rest.kind # "ok" THEN rest
           ELSE Ok(<<[book_id |-> book_id,
                      predicted_rating |->
                        predict_rating(matrix, j, similar_users),
                      recommendation_type |-> "collaborative"]>> \o rest.value)

RECURSIVE Candidates(_, _, _, _)
Candidates(matrix, user_ratings, similar_users, j) ==
  IF j > Len(matrix.columns) THEN Ok(<<>>)
  ELSE LET book_id == matrix.columns[j]
           rest == Candidates(matrix, user_ratings, similar_users, j + 1)
       IN  IF book_id \notin Range(user_ratings.labels) THEN Raises("KeyError")
           ELSE IF user_ratings.vals[GetLoc(user_ratings.labels, book_id)] # 0
                THEN rest
           ELSE IF PredictRaises(matrix, similar_users)
                THEN Raises("IndexError")
           ELSE IF rest.kind # "ok" THEN rest
           ELSE Ok(<<[book_id |-> book_id,
                      predicted_rating |->
                        predict_rating(matrix, j, similar_users),
                      recommendation_type |-> "collaborative"]>> \o rest.value)

\* Lines 65-67.
RankCollaborative(recommendations, n_recommendations) ==
  SliceTo(SortDesc(recommendations,
                   [i \in 1..Len(recommendations) |->
                      recommendations[i].predicted_rating]),
          n_recommendations)

FindUserOrFirstRow(user_item_matrix, user_id) ==
  IF IsNone(user_item_matrix) THEN Raises("ValueError")
  ELSE IF user_id \notin Range(user_item_matrix[1].index) THEN Ok(<<1>>)
  ELSE Ok(<<GetLoc(user_item_matrix[1].index, user_id)>>)

\* Lines 45-49: the reads of self.user_item_matrix that find the user's row.
FindUser(user_item_matrix, user_id) ==
  IF IsNone(user_item_matrix) THEN Raises("ValueError")
  ELSE IF user_id \notin Range(user_item_matrix[1].index) THEN Raises("KeyError")
  ELSE Ok(<<GetLoc(user_item_matrix[1].index, user_id)>>)

\* Line 52: self.user_similarity[user_idx] is a TypeError on None and an
\* IndexError past the last row.
FindSimilarUsers(user_similarity, user_idx, order) ==
  IF IsNone(user_similarity) THEN Raises("TypeError")
  ELSE IF user_idx > Len(user_similarity[1]) THEN Raises("IndexError")
  ELSE Ok(get_similar_users(user_similarity[1][user_idx], order, TopK))

\* Lines 55-67 on the matrix self.user_item_matrix holds then.
RankCandidates(matrix, user_ratings, similar_users, n_recommendations) ==
  LET recommendations == Candidates(matrix, user_ratings, similar_users, 1)
  IN  IF recommendations.kind # "ok" THEN recommendations
      ELSE Ok(RankCollaborative(recommendations.value, n_recommendations))

\* CollaborativeFilter.get_user_recommendations, given the order argsort
\* produced for the user's similarity row.
GetUserRecommendations(self, user_id, n_recommendations, order) ==
  LET found == FindUser(self.user_item_matrix, user_id)
  IN  IF found.kind # "ok" THEN found
      ELSE
        LET matrix == self.user_item_matrix[1]
            user_idx == found.value[1]
            similar == FindSimilarUsers(self.user_similarity, user_idx, order)
        IN  IF similar.kind # "ok" THEN similar
            ELSE RankCandidates(matrix, UserRatings(matrix, user_idx),
                                similar.value, n_recommendations)

\* The orders argsort may produce for the call (one dummy order when the
\* call fails before it sorts).
ArgsortOrders(self, user_id) ==
  IF \/ IsNone(self.user_item_matrix)
     \/ IsNone(self.user_similarity)
     \/ user_id \notin Range(self.user_item_matrix[1].index)
     \/ GetLoc(self.user_item_matrix[1].index, user_id)
          > Len(self.user_similarity[1])
  THEN {<<>>}
  ELSE DescendingOrders(
         self.user_similarity[1][GetLoc(self.user_item_matrix[1].index, user_id)])

\* Every outcome get_user_recommendations can have in a state.
RecommendOutcomes(self, user_id, n_recommendations) ==
  {GetUserRecommendations(self, user_id, n_recommendations, order) :
     order \in ArgsortOrders(self, user_id)}

\* ------------------------------------------------------- ContentBasedFilter

\* A row of books_data: book_id, author and genre.  title and description
\* only feed the TF-IDF text, whose cosine similarities are the library's.
Genres == {"Romance", "Horror"}
Authors == {"Austen"}
BookRows == [book_id : BookIds, author : Authors, genre : Genres]

\* books_data: at most MaxCatalog rows with distinct book_ids, in any order.
Catalogs ==
  {c \in UNION {[1..m -> BookRows] : m \in 1..MaxCatalog} :
     \A i, j \in 1..Len(c) : i # j => c[i].book_id # c[j].book_id}

\* cosine_similarity(tfidf_matrix): TF-IDF weights are not negative, so no
\* similarity is.
ContentSimilarities(m) ==
  {S \in CosineSimilarities(m, {}) : \A i, j \in 1..m : S[i][j] >= 0}

\* ContentBasedFilter.__init__
NewContentBasedFilter ==
  [book_features |-> None, content_similarity |-> None]

\* book_features.index, the book_ids in row order.
FeatureIndex(book_features) ==
  [i \in 1..Len(book_features) |-> book_features[i].book_id]

GenreWeight == <<2, 5>>      \* 0.4
AuthorWeight == <<3, 10>>    \* 0.3
HistoryWeight == <<3, 10>>   \* 0.3

\* Lines 184-188: the largest similarity of the book at position book_idx to
\* a read book that is in the index, starting from 0.
RECURSIVE FirstSimilarity(_, _, _, _)
FirstSimilarity(self, book_idx, reading_history, k) ==
  IF k > Len(reading_history) THEN Zero
  ELSE LET index == FeatureIndex(self.book_features[1])
           read_book_id == reading_history[k]
       IN  IF read_book_id \in Range(index)
           THEN <<self.content_similarity[1][book_idx]
                    [GetLoc(index, read_book_id)], 1>>
           ELSE FirstSimilarity(self, book_idx, reading_history, k + 1)

RECURSIVE MaxSimilarity(_, _, _, _)
MaxSimilarity(self, book_idx, reading_history, k) ==
  IF k > Len(reading_history) THEN Zero
  ELSE LET rest == MaxSimilarity(self, book_idx, reading_history, k + 1)
           index == FeatureIndex(self.book_features[1])
           read_book_id == reading_history[k]
       IN  IF read_book_id \in Range(index)
           THEN RMax(<<self.content_similarity[1][book_idx]
                         [GetLoc(index, read_book_id)], 1>>, rest)
           ELSE rest

\* ContentBasedFilter.calculate_content_score
calculate_content_score(self, book_data, user_profile) ==
  LET genre == IF book_data.genre \in user_profile.preferred_genres
               THEN GenreWeight ELSE Zero
      author == IF book_data.author \in user_profile.favorite_authors
                THEN AuthorWeight ELSE Zero
      history ==
        IF user_profile.reading_history # <<>>
        THEN RMul(HistoryWeight,
                  MaxSimilarity(self,
                                GetLoc(FeatureIndex(self.book_features[1]),
                                       book_data.book_id),
                                user_profile.reading_history, 1))
        ELSE Zero
  IN  RAdd(RAdd(genre, author), history)

\* Lines 150-159: a candidate for every row whose book_id is not in
\* reading_history, in row order.
RECURSIVE ContentCandidates(_, _, _)
ContentCandidates(self, user_profile, i) ==
  IF i > Len(self.book_features[1]) THEN <<>>
  ELSE LET book_data == self.book_features[1][i]
           rest == ContentCandidates(self, user_profile, i + 1)
       IN  IF book_data.book_id \notin Range(user_profile.reading_history)
           THEN <<[book_id |-> book_data.book_id,
                   content_score |->
                     calculate_content_score(self, book_data, user_profile),
                   recommendation_type |-> "content_based"]>> \o rest
           ELSE rest

\* Lines 161-162.
RankContent(recommendations, n_recommendations) ==
  SliceTo(SortDesc(recommendations,
                   [i \in 1..Len(recommendations) |->
                      recommendations[i].content_score]),
          n_recommendations)

\* ContentBasedFilter.get_content_recommendations: None has no iterrows.
GetContentRecommendations(self, user_profile, n_recommendations) ==
  IF IsNone(self.book_features) THEN Raises("AttributeError")
  ELSE Ok(RankContent(ContentCandidates(self, user_profile, 1),
                      n_recommendations))

\* ----------------------------------------------- HybridRecommendationEngine

\* __init__ builds the two filters and a SocialMediaAnalyzer, a class this
\* file neither defines nor imports; the model is of an engine whose module
\* namespace holds one, and takes the lists it returns as inputs.

CollabWeight == <<2, 5>>     \* 0.4
ContentWeight == <<7, 20>>   \* 0.35
SocialWeight == <<1, 4>>     \* 0.25

\* The conditions HybridRecommendationEngine.__init__ asserts before it
\* returns (lines 196-199 hold three assignments and no assert): none.  The
\* weights are literals of combine_recommendations, not fields of the engine.
StartupAssertions == {}

AccumulateAppending(book_scores, book_id, delta) ==
  Append(book_scores, <<book_id, RAdd(Zero, delta)>>)

AccumulateOverwriting(book_scores, book_id, delta) ==
  IF \E k \in 1..Len(book_scores) : book_scores[k][1] = book_id
  THEN [k \in 1..Len(book_scores) |->
          IF book_scores[k][1] = book_id THEN <<book_id, delta>>
          ELSE book_scores[k]]
  ELSE Append(book_scores, <<book_id, delta>>)

\* book_scores[book_id] = book_scores.get(book_id, 0) + delta, on a dict kept
\* as its (book_id, score) pairs in insertion order.
Accumulate(book_scores, book_id, delta) ==
  IF \E k \in 1..Len(book_scores) : book_scores[k][1] = book_id
  THEN [k \in 1..Len(book_scores) |->
          IF book_scores[k][1] = book_id
          THEN <<book_id, RAdd(book_scores[k][2], delta)>>
          ELSE book_scores[k]]
  ELSE Append(book_scores, <<book_id, RAdd(Zero, delta)>>)

\* One of the three loops of combine_recommendations over recs, whose score
\* is the field the loop reads, already picked into pairs (book_id, score).
RECURSIVE Weigh(_, _, _)
Weigh(book_scores, weight, pairs) ==
  IF pairs = <<>> THEN book_scores
  ELSE Weigh(Accumulate(book_scores, pairs[1][1], RMul(weight, pairs[1][2])),
             weight, Tail(pairs))

CollabPairs(recs) ==
  [k \in 1..Len(recs) |-> <<recs[k].book_id, recs[k].predicted_rating>>]
ContentPairs(recs) ==
  [k \in 1..Len(recs) |-> <<recs[k].book_id, recs[k].content_score>>]
SocialPairs(recs) ==
  [k \in 1..Len(recs) |-> <<recs[k].book_id, recs[k].social_score>>]

\* HybridRecommendationEngine.combine_recommendations
combine_recommendations(collab_recs, content_recs, social_recs) ==
  LET book_scores ==
        Weigh(Weigh(Weigh(<<>>, CollabWeight, CollabPairs(collab_recs)),
                    ContentWeight, ContentPairs(content_recs)),
              SocialWeight, SocialPairs(social_recs))
      final_recommendations ==
        [k \in 1..Len(book_scores) |->
           [book_id |-> book_scores[k][1],
            combined_score |-> book_scores[k][2],
            recommendation_type |-> "hybrid"]]
  IN  SortDesc(final_recommendations,
               [k \in 1..Len(book_scores) |-> book_scores[k][2]])

\* social_analyzer.get_social_recommendations(user_profile, m): the lists
\* the social adapter may return: at most m candidates (none for m <= 0) with
\* distinct book_ids outside reading_history and a score of 0.0 or 1.0.
SocialRecommendations(user_profile, m) ==
  LET rows == [book_id : BookIds \ Range(user_profile.reading_history),
               social_score : {Zero, <<1, 1>>},
               recommendation_type : {"social"}]
  IN  {l \in UNION {[1..len -> rows] : len \in 0..MaxSocial} :
         /\ Len(l) <= m
         /\ \A i, j \in 1..Len(l) : i # j => l[i].book_id # l[j].book_id}

GetRecommendationsAskingN(collaborative_filter, content_filter, user_id, user_profile, n_recommendations, order, social_recs) ==
  LET collab == GetUserRecommendations(collaborative_filter, user_id,
                                       n_recommendations, order)
      content == GetContentRecommendations(content_filter, user_profile,
                                           n_recommendations)
  IN  IF collab.kind # "ok" THEN Raises(collab.kind)
      ELSE IF content.kind # "ok" THEN Raises(content.kind)
      ELSE Ok(SliceTo(combine_recommendations(collab.value, content.value,
                                              social_recs),
                      n_recommendations))

\* HybridRecommendationEngine.get_recommendations, given argsort's order and
\* the social adapter's list: an exception of a sub-call is the call's.
GetRecommendations(collaborative_filter, content_filter, user_id, user_profile, n_recommendations, order, social_recs) ==
  LET collab == GetUserRecommendations(collaborative_filter, user_id,
                                       n_recommendations * 2, order)
      content == GetContentRecommendations(content_filter, user_profile,
                                           n_recommendations * 2)
  IN  IF collab.kind # "ok" THEN Raises(collab.kind)
      ELSE IF content.kind # "ok" THEN Raises(content.kind)
      ELSE Ok(SliceTo(combine_recommendations(collab.value, content.value,
                                              social_recs),
                      n_recommendations))

\* ------------------------------------------------------------------- state

VARIABLES
  cf,         \* the CollaborativeFilter instance (the engine's collaborative_filter)
  cb,         \* the ContentBasedFilter instance (the engine's content_filter)
  published,  \* history: the three trained fields as the last train that returned left them
  lastCall,   \* history: the last call made, its arguments and its outcome
  training,   \* the train call in flight on cf: its ratings_data and its position
  reading,    \* the get_user_recommendations call in flight on cf: its locals and position
  cfRun,      \* history: the trains begun, and the train that wrote each field of cf
  fusion,     \* history: the last combine_recommendations call, its lists and its result
  scoring,    \* history: the last call of a scoring method made on its own, its arguments and its result
  request     \* the get_recommendations call in flight on the engine: its locals and position

vars == <<cf, cb, published, lastCall, training, reading, cfRun, fusion, scoring, request>>
threads == <<training, reading, cfRun>>

\* A user_profile: the three keys the filters read.
NoProfile ==
  [preferred_genres |-> {}, favorite_authors |-> {}, reading_history |-> <<>>]

\* The profiles of requests: reading_history holds at most one book.
Profiles ==
  [preferred_genres : {{}, {"Romance"}},
   favorite_authors : {{}},
   reading_history : {<<>>} \cup {<<b>> : b \in BookIds}]

\* A record of a call: the method, its arguments (those it does not take at
\* their defaults) and its outcome.
Call(op, user_id, n, data, profile, social, outcome) ==
  [op |-> op, user_id |-> user_id, n |-> n, data |-> data,
   profile |-> profile, social |-> social, outcome |-> outcome]

NoCall == Call("none", 0, 0, {}, NoProfile, <<>>, Raises("none"))
TrainCall(data, outcome) == Call("train", 0, 0, data, NoProfile, <<>>, outcome)

\* The engine's filters as constructed; the rank of the collaborative
\* filter is the constructor's argument.
InitWith(ranks) ==
  /\ \E k \in ranks : cf = NewCollaborativeFilter(k)
  /\ cb = NewContentBasedFilter
  /\ published = None
  /\ lastCall = NoCall
  /\ training = None
  /\ reading = None
  /\ cfRun = [begun |-> 0, user_item_matrix |-> 0, user_similarity |-> 0]
  /\ fusion = None
  /\ scoring = None
  /\ request = None

Init == InitWith(Ranks)

\* CollaborativeFilter.train(ratings_data), lines 22-35, as one step.
TrainRaisesInPivot(data) ==
  /\ HasDuplicateEntries(data)
  /\ UNCHANGED <<cf, published>>
  /\ lastCall' = TrainCall(data, Raises("ValueError"))

TrainRaisesInSvd(data) ==
  /\ ~HasDuplicateEntries(data)
  /\ SvdRejects(cf.n_components, Pivot(data))
  /\ cf' = [cf EXCEPT !.user_item_matrix = Some(Pivot(data))]
  /\ UNCHANGED published
  /\ lastCall' = TrainCall(data, Raises("ValueError"))

UnseededUserSimilarities(last, matrix) ==
  CosineSimilarities(Len(matrix.index), ZeroRows(matrix))

\* Lines 30-34 with the TruncatedSVD of line 12 (random_state=42): the
\* user_similarity matrices a train may compute for `matrix` when the last
\* train that returned left the fields `last`.  The factorization is seeded,
\* so the matrix it gave for the same user_item_matrix is the one it gives
\* again.
UserSimilarities(last, matrix) ==
  IF ~IsNone(last) /\ last[1].user_item_matrix = Some(matrix)
  THEN {last[1].user_similarity[1]}
  ELSE CosineSimilarities(Len(matrix.index), ZeroRows(matrix))

\* Lines 23-35 of a train that raises nothing: the three fields it writes.
TrainInstalls(data) ==
  LET matrix == Pivot(data)
      is == ItemSimilarity(matrix)
  IN  \E us \in UserSimilarities(published, matrix) :
        /\ cf' = [cf EXCEPT !.user_item_matrix = Some(matrix),
                            !.user_similarity = Some(us),
                            !.item_similarity = Some(is)]
        /\ published' = Some([user_item_matrix |-> Some(matrix),
                              user_similarity |-> Some(us),
                              item_similarity |-> Some(is)])

TrainReturns(data) ==
  /\ ~HasDuplicateEntries(data)
  /\ ~SvdRejects(cf.n_components, Pivot(data))
  /\ TrainInstalls(data)
  /\ lastCall' = TrainCall(data, Ok(<<>>))

\* A train call with one of the tables of `tables`.
TrainWith(tables) ==
  /\ lastCall = NoCall
  /\ UNCHANGED <<cb, threads, fusion, scoring, request>>
  /\ \E data \in tables :
       \/ TrainRaisesInPivot(data)
       \/ TrainRaisesInSvd(data)
       \/ TrainReturns(data)

Train == TrainWith(RatingsData)

\* CollaborativeFilter.get_user_recommendations(user_id, n), as one step.
Recommend ==
  /\ lastCall = NoCall
  /\ \E user_id \in UserIds, n \in NValues :
      \E outcome \in RecommendOutcomes(cf, user_id, n) :
       /\ lastCall' = Call("recommend", user_id, n, {}, NoProfile, <<>>, outcome)
       /\ UNCHANGED <<cf, cb, published, threads, fusion, scoring, request>>

\* ContentBasedFilter.train(books_data), lines 116-134, as one step.
AppendedFeatures(self, books_data) ==
  IF IsNone(self.book_features) THEN books_data
  ELSE self.book_features[1] \o books_data

\* Line 134: the book_features a train of `self` with books_data leaves,
\* the rows of books_data in their order.
TrainedFeatures(self, books_data) == books_data

\* Lines 124-133: the content_similarity matrices a train of `self` with
\* books_data may compute.  TF-IDF and cosine_similarity are functions of
\* the text, so a filter trained with the same catalog has the same matrix.
TrainedContentSimilarities(self, books_data) ==
  IF self.book_features = Some(books_data)
  THEN {self.content_similarity[1]}
  ELSE ContentSimilarities(Len(books_data))

\* The two fields train writes, lines 133-134.
ContentTrainInstalls(books_data) ==
  \E similarity \in TrainedContentSimilarities(cb, books_data) :
    cb' = [book_features |-> Some(TrainedFeatures(cb, books_data)),
           content_similarity |-> Some(similarity)]

ContentTrain ==
  /\ lastCall = NoCall /\ IsNone(scoring)
  /\ \E books_data \in Catalogs :
       /\ ContentTrainInstalls(books_data)
       /\ lastCall' = Call("content_train", 0, 0, {}, NoProfile, <<>>, Ok(<<>>))
  /\ UNCHANGED <<cf, published, threads, fusion, scoring, request>>

\* ContentBasedFilter.train(books_data) on a filter trained before; the
\* record of the call keeps books_data and the filter as the call found it.
ContentTrainOver ==
  /\ lastCall = NoCall /\ IsNone(scoring)
  /\ ~IsNone(cb.book_features)
  /\ \E books_data \in Catalogs :
       /\ ContentTrainInstalls(books_data)
       /\ lastCall' = [op |-> "content_train_over", user_id |-> 0, n |-> 0,
                       data |-> {}, profile |-> NoProfile, social |-> <<>>,
                       outcome |-> Ok(<<>>),
                       books_data |-> books_data, before |-> cb]
  /\ UNCHANGED <<cf, published, threads, fusion, scoring, request>>

\* ContentBasedFilter.get_content_recommendations(user_profile, n).
ContentRecommend ==
  /\ lastCall = NoCall
  /\ \E user_profile \in Profiles, n \in NValues :
       lastCall' = Call("content_recommend", 0, n, {}, user_profile, <<>>,
                        GetContentRecommendations(cb, user_profile, n))
  /\ UNCHANGED <<cf, cb, published, threads, fusion, scoring, request>>

\* HybridRecommendationEngine.get_recommendations(user_id, user_profile, n).
EngineRecommend ==
  /\ lastCall = NoCall
  /\ \E user_id \in UserIds, user_profile \in Profiles, n \in NValues :
      \E order \in ArgsortOrders(cf, user_id),
         social_recs \in SocialRecommendations(user_profile, n * 2) :
       lastCall' = Call("get_recommendations", user_id, n, {}, user_profile,
                        social_recs,
                        GetRecommendations(cf, cb, user_id, user_profile, n,
                                           order, social_recs))
  /\ UNCHANGED <<cf, cb, published, threads, fusion, scoring, request>>

\* The caller takes the outcome of the call it made.
Return ==
  /\ lastCall # NoCall
  /\ lastCall' = NoCall
  /\ UNCHANGED <<cf, cb, published, threads, fusion, scoring, request>>

\* train called again, right after a train that returned, with the same
\* ratings_data.
TrainAgain ==
  /\ lastCall = NoCall
  /\ ~IsNone(published)
  /\ cf.user_item_matrix = published[1].user_item_matrix
  /\ cf.user_similarity = published[1].user_similarity
  /\ cf.item_similarity = published[1].item_similarity
  /\ UNCHANGED <<cb, threads, fusion, scoring, request>>
  /\ \E data \in RatingsData :
       /\ ~HasDuplicateEntries(data)
       /\ Some(Pivot(data)) = cf.user_item_matrix
       /\ TrainInstalls(data)
       /\ lastCall' = Call("train_again", 0, 0, data, NoProfile, <<>>, Ok(<<>>))

\* A CollaborativeFilter on its own.
Next == Train \/ Recommend \/ Return

Spec == Init /\ [][Next]_vars

\* A CollaborativeFilter whose train has returned on a table of up to
\* MaxRankedRecords rows over three books, so that a user has several
\* unrated books to rank; the calls are get_user_recommendations.
RankedBookIds == {1, 2, 3}
RankedRecords ==
  [user_id : UserIds, book_id : RankedBookIds, rating : RatingValues]
RankedData ==
  {D \in SUBSET RankedRecords : D # {} /\ Cardinality(D) <= MaxRankedRecords}

\* The filters train(data) leaves of a new CollaborativeFilter(n_components).
TrainedOn(n_components, data) ==
  {[n_components |-> n_components,
    user_item_matrix |-> Some(Pivot(data)),
    user_similarity |-> Some(us),
    item_similarity |-> Some(ItemSimilarity(Pivot(data)))] :
     us \in CosineSimilarities(Len(Pivot(data).index), ZeroRows(Pivot(data)))}

RankingRanks == {1, 3}

InitRanking ==
  /\ \E data \in RankedData, k \in RankingRanks :
       /\ ~HasDuplicateEntries(data)
       /\ ~SvdRejects(k, Pivot(data))
       /\ cf \in TrainedOn(k, data)
  /\ published = Some([user_item_matrix |-> cf.user_item_matrix,
                       user_similarity |-> cf.user_similarity,
                       item_similarity |-> cf.item_similarity])
  /\ cb = NewContentBasedFilter
  /\ lastCall = NoCall
  /\ training = None
  /\ reading = None
  /\ cfRun = [begun |-> 0, user_item_matrix |-> 0, user_similarity |-> 0]
  /\ fusion = None
  /\ scoring = None
  /\ request = None

NextRanking == Recommend \/ Return

SpecRanking == InitRanking /\ [][NextRanking]_vars

\* A CollaborativeFilter that is also trained twice in a row with the same
\* ratings_data.
RetrainRanks == {1, 2}

InitRetrain == InitWith(RetrainRanks)

NextRetrain == Train \/ TrainAgain \/ Recommend \/ Return

SpecRetrain == InitRetrain /\ [][NextRetrain]_vars

\* A ContentBasedFilter trained, and trained again with any catalog.
InitContentRetrain == InitWith({DefaultRank})

NextContentRetrain == ContentTrain \/ ContentTrainOver \/ Return

SpecContentRetrain == InitContentRetrain /\ [][NextContentRetrain]_vars

\* The engine's get_recommendations on a content filter trained with every
\* catalog and a collaborative filter, of the rank the tables admit,
\* trained with the tables whose ratings are all the same.
OrchestrationRanks == {1}
OrchestrationData == {D \in RatingsData : \A r \in D : r.rating = 1}

TrainOrchestrated == TrainWith(OrchestrationData)

InitOrchestration == InitWith(OrchestrationRanks)

NextOrchestration ==
  TrainOrchestrated \/ ContentTrain \/ EngineRecommend \/ Return

SpecOrchestration == InitOrchestration /\ [][NextOrchestration]_vars

\* The engine with its two filters; its collaborative filter has a rank the
\* small training tables admit, or the default.
EngineRanks == {1, DefaultRank}

InitEngine == InitWith(EngineRanks)

NextEngine ==
  \/ Train
  \/ ContentTrain
  \/ Recommend
  \/ ContentRecommend
  \/ EngineRecommend
  \/ Return

SpecEngine == InitEngine /\ [][NextEngine]_vars


\* A train and a get_user_recommendations call on the same filter from two
\* threads: neither method takes a lock, so a step of one (a statement that
\* reads or writes a field of self) may run between two steps of the other.

\* Lines 23-27: pivot, and the write of self.user_item_matrix.
TrainPivot ==
  /\ IsNone(training)
  /\ cfRun.begun < MaxTrains
  /\ \E data \in RatingsData :
       IF HasDuplicateEntries(data)
       THEN /\ cfRun' = [cfRun EXCEPT !.begun = @ + 1]
            /\ UNCHANGED <<fusion, scoring, cf, training, request>>
       ELSE /\ cf' = [cf EXCEPT !.user_item_matrix = Some(Pivot(data))]
            /\ cfRun' = [cfRun EXCEPT !.begun = @ + 1,
                                      !.user_item_matrix = cfRun.begun + 1]
            /\ training' = Some([pc |-> "svd", run |-> cfRun.begun + 1])
  /\ UNCHANGED <<fusion, scoring, cb, published, lastCall, reading, request>>

\* Lines 30-31: the factorization of self.user_item_matrix, which may raise.
TrainSvd ==
  /\ ~IsNone(training) /\ training[1].pc = "svd"
  /\ training' = IF SvdRejects(cf.n_components, cf.user_item_matrix[1])
                 THEN None
                 ELSE Some([training[1] EXCEPT !.pc = "user_similarity"])
  /\ UNCHANGED <<fusion, scoring, cf, cb, published, lastCall, reading, cfRun, request>>

\* Line 34: the write of self.user_similarity.
TrainUserSimilarity ==
  /\ ~IsNone(training) /\ training[1].pc = "user_similarity"
  /\ \E us \in CosineSimilarities(Len(cf.user_item_matrix[1].index),
                                  ZeroRows(cf.user_item_matrix[1])) :
       cf' = [cf EXCEPT !.user_similarity = Some(us)]
  /\ cfRun' = [cfRun EXCEPT !.user_similarity = training[1].run]
  /\ training' = Some([training[1] EXCEPT !.pc = "item_similarity"])
  /\ UNCHANGED <<fusion, scoring, cb, published, lastCall, reading, request>>

\* Line 35: the write of self.item_similarity; train returns.
TrainItemSimilarity ==
  /\ ~IsNone(training) /\ training[1].pc = "item_similarity"
  /\ cf' = [cf EXCEPT !.item_similarity =
                         Some(ItemSimilarity(cf.user_item_matrix[1]))]
  /\ published' = Some([user_item_matrix |-> cf'.user_item_matrix,
                        user_similarity |-> cf'.user_similarity,
                        item_similarity |-> cf'.item_similarity])
  /\ training' = None
  /\ UNCHANGED <<fusion, scoring, cb, lastCall, reading, cfRun, request>>

Finished(outcome, read) ==
  Some([pc |-> "done", user_id |-> 0, n |-> 0, user_ratings |-> <<>>,
        similar_users |-> <<>>, read |-> read, overlap |-> FALSE,
        outcome |-> outcome])

\* Lines 45-49: the reads of self.user_item_matrix up to the user's row.
RecommendFindUser ==
  /\ IsNone(reading)
  /\ \E user_id \in UserIds, n \in NValues :
       LET found == FindUser(cf.user_item_matrix, user_id)
       IN  reading' =
             IF found.kind # "ok" THEN Finished(found, <<>>)
             ELSE Some([pc |-> "similar_users", user_id |-> user_id, n |-> n,
                        user_ratings |->
                          UserRatings(cf.user_item_matrix[1], found.value[1]),
                        similar_users |-> <<>>,
                        read |-> <<cfRun.user_item_matrix>>,
                        overlap |-> ~IsNone(training),
                        outcome |-> Raises("none")])
  /\ UNCHANGED <<fusion, scoring, cf, cb, published, lastCall, training, cfRun, request>>

\* Line 52: the read of self.user_similarity in get_similar_users.  The
\* user's position is that of line 48, in the matrix read there.
RecommendSimilarUsers ==
  /\ ~IsNone(reading) /\ reading[1].pc = "similar_users"
  /\ LET user_idx == GetLoc(reading[1].user_ratings.index, reading[1].user_id)
         read == Append(reading[1].read, cfRun.user_similarity)
         overlap == reading[1].overlap \/ ~IsNone(training)
         orders == IF IsNone(cf.user_similarity)
                      \/ user_idx > Len(cf.user_similarity[1])
                   THEN {<<>>}
                   ELSE DescendingOrders(cf.user_similarity[1][user_idx])
     IN  \E order \in orders :
           LET similar == FindSimilarUsers(cf.user_similarity, user_idx, order)
           IN  reading' =
                 IF similar.kind # "ok"
                 THEN Some([reading[1] EXCEPT !.pc = "done", !.read = read,
                                              !.overlap = overlap,
                                              !.outcome = similar])
                 ELSE Some([reading[1] EXCEPT !.pc = "rank", !.read = read,
                                              !.overlap = overlap,
                                              !.similar_users = similar.value])
  /\ UNCHANGED <<fusion, scoring, cf, cb, published, lastCall, training, cfRun, request>>

\* Lines 55-67: the loop over the columns of self.user_item_matrix, the
\* sort and the slice; the call returns.
RecommendRank ==
  /\ ~IsNone(reading) /\ reading[1].pc = "rank"
  /\ reading' = Some([reading[1] EXCEPT
                        !.pc = "done",
                        !.outcome = RankCandidates(cf.user_item_matrix[1],
                                                   reading[1].user_ratings,
                                                   reading[1].similar_users,
                                                   reading[1].n)])
  /\ UNCHANGED <<fusion, scoring, cf, cb, published, lastCall, training, cfRun, request>>

\* The caller takes the outcome.
RecommendReturn ==
  /\ ~IsNone(reading) /\ reading[1].pc = "done"
  /\ reading' = None
  /\ UNCHANGED <<fusion, scoring, cf, cb, published, lastCall, training, cfRun, request>>

ThreadRanks == {2}

InitThreads == InitWith(ThreadRanks)

NextThreads ==
  \/ TrainPivot
  \/ TrainSvd
  \/ TrainUserSimilarity
  \/ TrainItemSimilarity
  \/ RecommendFindUser
  \/ RecommendSimilarUsers
  \/ RecommendRank
  \/ RecommendReturn

SpecThreads == InitThreads /\ [][NextThreads]_vars

\* combine_recommendations on its own: three lists of at most MaxList
\* candidates each, with distinct book_ids within a list (as the three
\* scorers build them) and scores from small sets.
ListsOf(rows) ==
  {l \in UNION {[1..len -> rows] : len \in 0..MaxList} :
     \A i, j \in 1..Len(l) : i # j => l[i].book_id # l[j].book_id}

CollabLists ==
  ListsOf([book_id : BookIds,
           predicted_rating : {<<-1, 1>>, Zero, <<3, 2>>},
           recommendation_type : {"collaborative"}])
ContentLists ==
  ListsOf([book_id : BookIds,
           content_score : {Zero, <<2, 5>>, <<7, 10>>},
           recommendation_type : {"content_based"}])
SocialLists ==
  ListsOf([book_id : BookIds,
           social_score : {Zero, <<1, 1>>},
           recommendation_type : {"social"}])

Combine ==
  /\ IsNone(fusion)
  /\ \E collab_recs \in CollabLists, content_recs \in ContentLists,
        social_recs \in SocialLists :
       fusion' = Some([collab_recs |-> collab_recs,
                       content_recs |-> content_recs,
                       social_recs |-> social_recs,
                       result |-> combine_recommendations(
                                    collab_recs, content_recs, social_recs)])
  /\ UNCHANGED <<cf, cb, published, lastCall, threads, scoring, request>>

\* The caller takes the fused list.
CombineReturn ==
  /\ ~IsNone(fusion)
  /\ fusion' = None
  /\ UNCHANGED <<cf, cb, published, lastCall, threads, scoring, request>>

InitCombine == InitWith({DefaultRank})

NextCombine == Combine \/ CombineReturn

SpecCombine == InitCombine /\ [][NextCombine]_vars

\* The scoring methods on their own: predict_rating and get_similar_users
\* on a matrix and a similarity row handed to them, calculate_content_score
\* on the trained content filter.

\* A user_item_matrix of MaxNeighbours + 1 users and one book, and the
\* similar_users lists predict_rating is handed: (position, similarity)
\* pairs of distinct users.
ScoredMatrices ==
  {[index |-> [i \in 1..(MaxNeighbours + 1) |-> i],
    columns |-> <<1>>,
    values |-> [i \in 1..(MaxNeighbours + 1) |-> <<column[i]>>]] :
     column \in [1..(MaxNeighbours + 1) -> {0} \cup RatingValues]}

NeighbourLists ==
  {l \in UNION {[1..len -> (1..(MaxNeighbours + 1)) \X SimVals] :
                  len \in 0..MaxNeighbours} :
     \A i, j \in 1..Len(l) : i # j => l[i][1] # l[j][1]}

\* CollaborativeFilter.predict_rating(user_idx, book_id, similar_users).
PredictRating ==
  /\ IsNone(scoring) /\ lastCall = NoCall
  /\ \E matrix \in ScoredMatrices, similar_users \in NeighbourLists :
       scoring' = Some([op |-> "predict_rating",
                        matrix |-> matrix,
                        similar_users |-> similar_users,
                        result |-> predict_rating(matrix, 1, similar_users)])
  /\ UNCHANGED <<cf, cb, published, lastCall, threads, fusion, request>>

\* The rows of user_similarity get_similar_users reads: the user's own
\* entry is 1.0.
SimilarityRows(user_idx, m) ==
  {r \in [1..m -> SimVals] : r[user_idx] = 1}

\* CollaborativeFilter.get_similar_users(user_idx, top_k).
SimilarUsers ==
  /\ IsNone(scoring) /\ lastCall = NoCall
  /\ \E m \in 1..(MaxNeighbours + 1), top_k \in (1..MaxNeighbours) \cup {TopK} :
      \E user_idx \in 1..m :
       \E similarities \in SimilarityRows(user_idx, m) :
        \E order \in DescendingOrders(similarities) :
          scoring' = Some([op |-> "get_similar_users",
                           user_idx |-> user_idx,
                           similarities |-> similarities,
                           top_k |-> top_k,
                           result |-> get_similar_users(similarities, order,
                                                        top_k)])
  /\ UNCHANGED <<cf, cb, published, lastCall, threads, fusion, request>>

\* The profiles calculate_content_score is handed: reading_history holds at
\* most MaxHistory book ids, of which UnlistedBook is in no catalog.
UnlistedBook == 3
Histories ==
  UNION {[1..len -> BookIds \cup {UnlistedBook}] : len \in 0..MaxHistory}
ScoredProfiles ==
  [preferred_genres : {{}, {"Romance"}},
   favorite_authors : {{}, {"Austen"}, {"Shelley"}},
   reading_history : Histories]

\* ContentBasedFilter.calculate_content_score(book_data, user_profile) for
\* a row of the trained book_features.
ContentScore ==
  /\ IsNone(scoring) /\ lastCall = NoCall
  /\ ~IsNone(cb.book_features)
  /\ \E i \in 1..Len(cb.book_features[1]), user_profile \in ScoredProfiles :
       scoring' = Some([op |-> "calculate_content_score",
                        book_data |-> cb.book_features[1][i],
                        user_profile |-> user_profile,
                        result |-> calculate_content_score(
                                     cb, cb.book_features[1][i], user_profile)])
  /\ UNCHANGED <<cf, cb, published, lastCall, threads, fusion, request>>

\* The caller takes the score.
ScoringReturn ==
  /\ ~IsNone(scoring)
  /\ scoring' = None
  /\ UNCHANGED <<cf, cb, published, lastCall, threads, fusion, request>>

InitScoring == InitWith({DefaultRank})

\* The two scoring methods of the collaborative filter.
NextScoring ==
  \/ PredictRating
  \/ SimilarUsers
  \/ ScoringReturn

SpecScoring == InitScoring /\ [][NextScoring]_vars

\* The scoring method of the content filter, on every catalog it is trained
\* with.
InitContentScoring == InitWith({DefaultRank})

NextContentScoring ==
  \/ ContentTrain
  \/ Return
  \/ ContentScore
  \/ ScoringReturn

SpecContentScoring == InitContentScoring /\ [][NextContentScoring]_vars

\* HybridRecommendationEngine.get_recommendations statement by statement:
\* `request` holds the locals of the call in flight and the statement it is
\* at.  Each await of lines 211-221 takes the value of the call it awaits
\* before the next statement runs.

SkipSocial(pc) ==
  CASE pc = "collaborative" -> "content"
    [] pc = "content" -> "combine"
    [] pc = "social" -> "combine"
    [] pc = "combine" -> "return"

\* The statement that follows the one at pc in lines 211-228.
NextStatement(pc) ==
  CASE pc = "collaborative" -> "content"
    [] pc = "content" -> "social"
    [] pc = "social" -> "combine"
    [] pc = "combine" -> "return"

\* A sub-call of the request returned `value` into the local `name`.
Completed(name, value) ==
  Some([request[1] EXCEPT ![name] = Some(value),
                          !.completed = Append(@, request[1].pc),
                          !.pc = NextStatement(@)])

\* An exception of a sub-call leaves get_recommendations with the caller.
RequestRaises(kind) ==
  /\ request' = None
  /\ lastCall' = Call("get_recommendations", request[1].user_id,
                      request[1].n_recommendations, {},
                      request[1].user_profile, <<>>, Raises(kind))

\* The call is made: lines 201-206.
RequestBegin ==
  /\ IsNone(request) /\ lastCall = NoCall
  /\ \E user_id \in UserIds, user_profile \in Profiles, n \in NValues :
       request' = Some([pc |-> "collaborative", user_id |-> user_id,
                        user_profile |-> user_profile,
                        n_recommendations |-> n, completed |-> <<>>,
                        collab_recs |-> None, content_recs |-> None,
                        social_recs |-> None, combined_recs |-> None])
  /\ UNCHANGED <<cf, cb, published, lastCall, threads, fusion, scoring>>

\* Lines 211-213.
RequestCollaborative ==
  /\ ~IsNone(request) /\ request[1].pc = "collaborative"
  /\ \E order \in ArgsortOrders(cf, request[1].user_id) :
       LET outcome == GetUserRecommendations(
                        cf, request[1].user_id,
                        request[1].n_recommendations * 2, order)
       IN  IF outcome.kind = "ok"
           THEN request' = Completed("collab_recs", outcome.value)
                /\ UNCHANGED lastCall
           ELSE RequestRaises(outcome.kind)
  /\ UNCHANGED <<cf, cb, published, threads, fusion, scoring>>

\* Lines 215-217.
RequestContent ==
  /\ ~IsNone(request) /\ request[1].pc = "content"
  /\ LET outcome == GetContentRecommendations(
                      cb, request[1].user_profile,
                      request[1].n_recommendations * 2)
     IN  IF outcome.kind = "ok"
         THEN request' = Completed("content_recs", outcome.value)
              /\ UNCHANGED lastCall
         ELSE RequestRaises(outcome.kind)
  /\ UNCHANGED <<cf, cb, published, threads, fusion, scoring>>

\* Lines 219-221.
RequestSocial ==
  /\ ~IsNone(request) /\ request[1].pc = "social"
  /\ \E recs \in SocialRecommendations(request[1].user_profile,
                                       request[1].n_recommendations * 2) :
       request' = Completed("social_recs", recs)
  /\ UNCHANGED <<cf, cb, published, lastCall, threads, fusion, scoring>>

\* Lines 224-226.
RequestCombine ==
  /\ ~IsNone(request) /\ request[1].pc = "combine"
  /\ request' = Some([request[1] EXCEPT
                        !.combined_recs =
                          Some(combine_recommendations(
                                 request[1].collab_recs[1],
                                 request[1].content_recs[1],
                                 request[1].social_recs[1])),
                        !.pc = NextStatement(@)])
  /\ UNCHANGED <<cf, cb, published, lastCall, threads, fusion, scoring>>

\* Line 228.
RequestReturn ==
  /\ ~IsNone(request) /\ request[1].pc = "return"
  /\ request' = None
  /\ lastCall' = Call("get_recommendations", request[1].user_id,
                      request[1].n_recommendations, {},
                      request[1].user_profile, request[1].social_recs[1],
                      Ok(SliceTo(request[1].combined_recs[1],
                                 request[1].n_recommendations)))
  /\ UNCHANGED <<cf, cb, published, threads, fusion, scoring>>

\* ContentBasedFilter.train between two requests.
ContentTrainBetweenRequests == IsNone(request) /\ ContentTrain

\* The engine with a collaborative filter of rank 1 trained on a table whose
\* ratings are all the same, and its content filter trained between
\* requests; the requests run statement by statement.
InitRequest ==
  /\ \E data \in OrchestrationData :
       /\ ~HasDuplicateEntries(data)
       /\ ~SvdRejects(1, Pivot(data))
       /\ cf \in TrainedOn(1, data)
  /\ published = Some([user_item_matrix |-> cf.user_item_matrix,
                       user_similarity |-> cf.user_similarity,
                       item_similarity |-> cf.item_similarity])
  /\ cb = NewContentBasedFilter
  /\ lastCall = NoCall
  /\ training = None
  /\ reading = None
  /\ cfRun = [begun |-> 0, user_item_matrix |-> 0, user_similarity |-> 0]
  /\ fusion = None
  /\ scoring = None
  /\ request = None

NextRequest ==
  \/ ContentTrainBetweenRequests
  \/ RequestBegin
  \/ RequestCollaborative
  \/ RequestContent
  \/ RequestSocial
  \/ RequestCombine
  \/ RequestReturn
  \/ Return

SpecRequest == InitRequest /\ [][NextRequest]_vars

\* ------------------------------------------------------ the social scorer

\* PinterestAnalyzer.map_to_book_genres(analysis).  A mood_profile is a dict
\* from some of the four moods to a score; an interest keyword is kept as
\* the set of the keys of keyword_genre_map its lower-cased text contains
\* (`key in keyword.lower()`), which is all the method reads of it.
Moods == {"romantic", "dark", "bright", "minimalist"}

\* The genres appended for a mood (lines 193-203).
MoodGenreMap ==
  [romantic |-> {"Romance"},
   dark |-> {"Horror", "Mystery", "Thriller"},
   bright |-> {"Comedy", "Adventure"},
   minimalist |-> {"Literary Fiction", "Philosophy"}]

\* The score a mood has to exceed (0.3, 0.4, 0.4, 0.3).
MoodThreshold ==
  [romantic |-> <<3, 10>>, dark |-> <<2, 5>>,
   bright |-> <<2, 5>>, minimalist |-> <<3, 10>>]

\* keyword_genre_map, lines 207-215.
keyword_genre_map ==
  [vintage |-> {"Historical Fiction"},
   nature |-> {"Adventure", "Environmental"},
   travel |-> {"Adventure", "Travel"},
   art |-> {"Art", "Biography"},
   fashion |-> {"Contemporary Fiction"},
   food |-> {"Cooking", "Memoir"},
   quotes |-> {"Poetry", "Philosophy"}]

\* mood_profile.get(mood, 0)
MoodScore(mood_profile, mood) ==
  IF mood \in DOMAIN mood_profile THEN mood_profile[mood] ELSE Zero

MoodGenresOfPresentKeys(mood_profile) ==
  UNION {MoodGenreMap[mood] : mood \in DOMAIN mood_profile}

\* Lines 191-203: the genres of the moods whose score exceeds the threshold.
MoodGenres(mood_profile) ==
  UNION {MoodGenreMap[mood] :
           mood \in {m \in Moods :
                       RLess(MoodThreshold[m], MoodScore(mood_profile, m))}}

\* Lines 217-220: the genres of every key an interest keyword contains.
KeywordGenres(keywords) ==
  UNION {keyword_genre_map[key] :
           key \in UNION {keywords[k] : k \in 1..Len(keywords)}}

\* The list returned at line 222 holds each genre once, in no stated order:
\* the set of its genres.
map_to_book_genres(analysis) ==
  MoodGenres(analysis.mood_profile) \cup KeywordGenres(analysis.interest_keywords)

\* The score of the social adapter for one book (section 4.4 of the
\* specification; no class of the source computes it): 1 when the genre of
\* the book is among the genres the profile maps to, 0 when it is not.
social_score(analysis, book_data) ==
  IF book_data.genre \in map_to_book_genres(analysis) THEN <<1, 1>> ELSE Zero

\* The profiles and books the scorer is called with.
MaxKeywords == 1
MoodValues == {Zero, <<3, 10>>, <<1, 2>>}
MoodProfiles == UNION {[S -> MoodValues] : S \in SUBSET Moods}
KeywordTexts == {{}, {"nature"}, {"quotes"}, {"nature", "travel"}}
Analyses ==
  [mood_profile : MoodProfiles,
   interest_keywords : UNION {[1..len -> KeywordTexts] : len \in 0..MaxKeywords}]
SocialGenres == {"Romance", "Adventure", "Philosophy", "Science Fiction"}
SocialBooks == [book_id : {1}, author : Authors, genre : SocialGenres]

\* A call of the social scorer on the engine as constructed.
SocialScore ==
  /\ IsNone(scoring)
  /\ \E analysis \in Analyses, book_data \in SocialBooks :
       scoring' = Some([op |-> "social_score", analysis |-> analysis,
                        book_data |-> book_data,
                        result |-> social_score(analysis, book_data)])
  /\ UNCHANGED <<cf, cb, published, lastCall, threads, fusion, request>>

InitSocial == InitWith({DefaultRank})

NextSocial == SocialScore \/ ScoringReturn

SpecSocial == InitSocial /\ [][NextSocial]_vars

\* --------------------------------------------- a rank-1 filter on a scenario

\* The table [(u1,i1,5), (u1,i2,1), (u2,i1,4), (u2,i3,5)] with users and
\* items numbered, and every non-empty part of it.
ScenarioData ==
  {[user_id |-> 1, book_id |-> 1, rating |-> 5],
   [user_id |-> 1, book_id |-> 2, rating |-> 1],
   [user_id |-> 2, book_id |-> 1, rating |-> 4],
   [user_id |-> 2, book_id |-> 3, rating |-> 5]}

ScenarioTables == SUBSET ScenarioData \ {{}}

\* Every two users of the matrix rated a book in common.
RatedInCommon(matrix) ==
  \A i, k \in 1..Len(matrix.index) :
     \E j \in 1..Len(matrix.columns) :
        matrix.values[i][j] > 0 /\ matrix.values[k][j] > 0

AnyFactorSimilarities(n_components, matrix) ==
  CosineSimilarities(Len(matrix.index), ZeroRows(matrix))

\* Lines 30-34 for a matrix of ratings >= 0: with one component each user's
\* factor is the projection of the user's row on the leading right singular
\* vector, whose entries have one sign over the books of users who rated a
\* book in common, so the factors of such users have the same sign and
\* their cosine similarity is 1.  Otherwise the values are the library's.
FactorSimilarities(n_components, matrix) ==
  IF n_components = 1 /\ RatedInCommon(matrix)
  THEN {[i \in 1..Len(matrix.index) |-> [k \in 1..Len(matrix.index) |-> 1]]}
  ELSE CosineSimilarities(Len(matrix.index), ZeroRows(matrix))

\* CollaborativeFilter.train with a part of the scenario's table.
TrainScenario ==
  /\ lastCall = NoCall
  /\ UNCHANGED <<cb, threads, fusion, scoring, request>>
  /\ \E data \in ScenarioTables :
       \/ TrainRaisesInPivot(data)
       \/ TrainRaisesInSvd(data)
       \/ /\ ~HasDuplicateEntries(data)
          /\ ~SvdRejects(cf.n_components, Pivot(data))
          /\ \E us \in FactorSimilarities(cf.n_components, Pivot(data)) :
               /\ cf' = [cf EXCEPT
                           !.user_item_matrix = Some(Pivot(data)),
                           !.user_similarity = Some(us),
                           !.item_similarity = Some(ItemSimilarity(Pivot(data)))]
               /\ published' =
                    Some([user_item_matrix |-> Some(Pivot(data)),
                          user_similarity |-> Some(us),
                          item_similarity |-> Some(ItemSimilarity(Pivot(data)))])
          /\ lastCall' = TrainCall(data, Ok(<<>>))

ScenarioRanks == {1}

InitScenario == InitWith(ScenarioRanks)

NextScenario == TrainScenario \/ Recommend \/ Return

SpecScenario == InitScenario /\ [][NextScenario]_vars

\* The scorers with data missing: the trained filters of the engine, their
\* recommend calls, and their scoring methods on their own.
InitAbsence == InitRequest

\* The recommend calls, made while no scoring call of the caller's own is
\* open; the collaborative scoring methods, called before the content
\* filter is trained (they read neither filter).
RecommendAfterScoring == IsNone(scoring) /\ Recommend
ContentRecommendAfterScoring == IsNone(scoring) /\ ContentRecommend
PredictRatingFirst == IsNone(cb.book_features) /\ PredictRating
SimilarUsersFirst == IsNone(cb.book_features) /\ SimilarUsers

NextAbsence ==
  \/ ContentTrain
  \/ RecommendAfterScoring
  \/ ContentRecommendAfterScoring
  \/ Return
  \/ PredictRatingFirst
  \/ SimilarUsersFirst
  \/ ContentScore
  \/ ScoringReturn

SpecAbsence == InitAbsence /\ [][NextAbsence]_vars

\* ------------------------------------------------------- cosine_similarity

\* cosine_similarity(X) as train calls it at lines 34, 35 and 133: the rows
\* of X are divided by their Euclidean norms, a norm of 0 being replaced by
\* 1 first, and the matrix of dot products of the divided rows is returned.
\* The vectors are integer vectors whose norm is an integer, so that the
\* arithmetic is exact.  A division by 0 gives NaN.
NaN == <<0, 0>>

MaxVectors == 3

FactorVectors ==
  {<<0, 0>>, <<3, 4>>, <<4, 3>>, <<-3, 4>>, <<5, 0>>, <<0, -5>>}

FactorMatrices == UNION {[1..m -> FactorVectors] : m \in 1..MaxVectors}

Dot(u, v) == u[1] * v[1] + u[2] * v[2]

Norm(v) == CHOOSE r \in 0..(Abs(v[1]) + Abs(v[2])) : r * r = Dot(v, v)

Divide(n, d) == IF d = 0 THEN NaN ELSE Rat(n, d)

KeepZeroNorm(norm) == norm

\* The norm a row is divided by.
HandleZeros(norm) == IF norm = 0 THEN 1 ELSE norm

cosine_similarity(X) ==
  [i \in 1..Len(X) |->
     [j \in 1..Len(X) |->
        Divide(Dot(X[i], X[j]),
               HandleZeros(Norm(X[i])) * HandleZeros(Norm(X[j])))]]

\* The three similarity fields train computes with it.
SimilarityFields == {"user_similarity", "item_similarity", "content_similarity"}

\* One of the calls of cosine_similarity of the two train methods.
CosineSimilarity ==
  /\ IsNone(scoring)
  /\ \E field \in SimilarityFields, X \in FactorMatrices :
       scoring' = Some([op |-> "cosine_similarity", field |-> field,
                        X |-> X, result |-> cosine_similarity(X)])
  /\ UNCHANGED <<cf, cb, published, lastCall, threads, fusion, request>>

InitSimilarity == InitWith({DefaultRank})

NextSimilarity == CosineSimilarity \/ ScoringReturn

SpecSimilarity == InitSimilarity /\ [][NextSimilarity]_vars

\* ------------------------------------------- the same recommend call twice

\* What a recommend call leaves of the objects it is handed.  No statement
\* of get_user_recommendations, get_similar_users or predict_rating assigns
\* to a field of self or writes into one (lines 45-98); the list sorted at
\* line 66 is the local one.
ClearedAfterRecommend(self) == NewCollaborativeFilter(self.n_components)

AfterRecommend(self) == self

\* get_content_recommendations and calculate_content_score read self and
\* user_profile (dict.get inserts no key) and sort their own list.
AfterContentRecommend(self) == self
ProfileAfterContentRecommend(user_profile) == user_profile

\* combine_recommendations iterates the three lists, writes to its own
\* dict and sorts the list it built (lines 239-266).
ListsAfterCombine(collab_recs, content_recs, social_recs) ==
  <<collab_recs, content_recs, social_recs>>

\* np.argsort is a function of the array: on the row it sorted into
\* `order` before it gives `order` again, on another row any of its orders.
ArgsortOrdersAgain(before, after, user_id, order) ==
  IF after = before THEN {order} ELSE ArgsortOrders(after, user_id)

\* get_user_recommendations called twice in a row with the same arguments.
RecommendTwice ==
  /\ lastCall = NoCall /\ IsNone(fusion)
  /\ \E user_id \in UserIds, n \in NValues :
      \E order \in ArgsortOrders(cf, user_id) :
       LET first == GetUserRecommendations(cf, user_id, n, order)
           after == AfterRecommend(cf)
       IN  \E again \in ArgsortOrdersAgain(cf, after, user_id, order) :
             /\ cf' = AfterRecommend(after)
             /\ lastCall' =
                  [op |-> "recommend_twice", user_id |-> user_id, n |-> n,
                   data |-> {}, profile |-> NoProfile, social |-> <<>>,
                   outcome |-> GetUserRecommendations(after, user_id, n, again),
                   first |-> first, before |-> cf]
  /\ UNCHANGED <<cb, published, threads, fusion, scoring, request>>

\* get_content_recommendations called twice in a row with the same profile
\* object and n.
ContentRecommendTwice ==
  /\ lastCall = NoCall /\ IsNone(fusion)
  /\ \E user_profile \in Profiles, n \in NValues :
       LET first == GetContentRecommendations(cb, user_profile, n)
           after == AfterContentRecommend(cb)
           profile == ProfileAfterContentRecommend(user_profile)
       IN  /\ cb' = AfterContentRecommend(after)
           /\ lastCall' =
                [op |-> "content_recommend_twice", user_id |-> 0, n |-> n,
                 data |-> {}, social |-> <<>>,
                 profile |-> ProfileAfterContentRecommend(profile),
                 outcome |-> GetContentRecommendations(after, profile, n),
                 first |-> first, before |-> cb, given |-> user_profile]
  /\ UNCHANGED <<cf, published, threads, fusion, scoring, request>>

\* combine_recommendations called twice in a row with the same three list
\* objects, on an engine whose content filter is yet to be trained.
CombineTwice ==
  /\ IsNone(fusion) /\ lastCall = NoCall /\ IsNone(cb.book_features)
  /\ \E collab_recs \in CollabLists, content_recs \in ContentLists,
        social_recs \in SocialLists :
       LET after == ListsAfterCombine(collab_recs, content_recs, social_recs)
       IN  fusion' =
             Some([collab_recs |-> collab_recs, content_recs |-> content_recs,
                   social_recs |-> social_recs,
                   first |-> combine_recommendations(
                               collab_recs, content_recs, social_recs),
                   result |-> combine_recommendations(
                                after[1], after[2], after[3]),
                   after |-> ListsAfterCombine(after[1], after[2], after[3])])
  /\ UNCHANGED <<cf, cb, published, lastCall, threads, scoring, request>>

ContentTrainBeforeCalls == IsNone(fusion) /\ ContentTrain

InitReadOnly == InitRequest

NextReadOnly ==
  \/ ContentTrainBeforeCalls
  \/ RecommendTwice
  \/ ContentRecommendTwice
  \/ CombineTwice
  \/ Return
  \/ CombineReturn

SpecReadOnly == InitReadOnly /\ [][NextReadOnly]_vars

\* ----------------------------------------- train and the caller's catalog

\* Lines 116-121: books_data['combined_features'] = ... assigns a column
\* of the DataFrame object the caller passed, so the caller's catalog has
\* it when train returns: each row with its text fields joined (of the
\* four, the rows of the model carry author and genre).
CombinedFeatures(row) == <<row.author, row.genre>>

CatalogAfterTrain(books_data) ==
  [i \in 1..Len(books_data) |->
     [book_id |-> books_data[i].book_id,
      author |-> books_data[i].author,
      genre |-> books_data[i].genre,
      combined_features |-> CombinedFeatures(books_data[i])]]

\* ContentBasedFilter.train(books_data), lines 116-134, with the catalog
\* as the caller holds it when train returns.
ContentTrainOnCallersCatalog ==
  /\ lastCall = NoCall /\ IsNone(scoring)
  /\ \E books_data \in Catalogs :
       /\ ContentTrainInstalls(books_data)
       /\ lastCall' = [op |-> "content_train_catalog", user_id |-> 0, n |-> 0,
                       data |-> {}, profile |-> NoProfile, social |-> <<>>,
                       outcome |-> Ok(<<>>),
                       books_data |-> books_data,
                       catalog |-> CatalogAfterTrain(books_data)]
  /\ UNCHANGED <<cf, published, threads, fusion, scoring, request>>

InitCatalog == InitWith({DefaultRank})

\* The content filter trained with the caller's catalog, and asked.
NextCatalog == ContentTrainOnCallersCatalog \/ ContentRecommend \/ Return

SpecCatalog == InitCatalog /\ [][NextCatalog]_vars

\* ------------------------------------------------------------------ claims

Trained == ~IsNone(cf.user_item_matrix)
Matrix == cf.user_item_matrix[1]
KnownUser(user_id) == user_id \in Range(Matrix.index)
Rating(user_id, book_id) ==
  Matrix.values[GetLoc(Matrix.index, user_id)][GetLoc(Matrix.columns, book_id)]
Returned == lastCall.outcome.value
BooksOf(recs) == {recs[k].book_id : k \in 1..Len(recs)}

\* The trained fields as the last train that returned left them.
PublishedFilter ==
  [cf EXCEPT !.user_item_matrix = published[1].user_item_matrix,
             !.user_similarity = published[1].user_similarity,
             !.item_similarity = published[1].item_similarity]

\* C3: after a train that raises on an instance trained before, the three
\* trained fields are those of the last train that returned, and every
\* recommend call has the outcomes it had with them.
C3_FailedTrainKeepsPublishedModel ==
  (lastCall.op = "train" /\ lastCall.outcome.kind # "ok" /\ ~IsNone(published))
    => /\ cf = PublishedFilter
       /\ \A user_id \in UserIds, n \in NValues :
             RecommendOutcomes(cf, user_id, n)
               = RecommendOutcomes(PublishedFilter, user_id, n)

\* C4: a list get_user_recommendations returns holds no book the user has a
\* non-zero rating for in the matrix of the filter.
C4_NeverRecommendsRatedBook ==
  (lastCall.op = "recommend" /\ lastCall.outcome.kind = "ok")
    => \A book_id \in BooksOf(Returned) : Rating(lastCall.user_id, book_id) = 0

\* C4's case: a user with a rated and an unrated book is recommended a book.
C4_Witness ==
  /\ lastCall.op = "recommend" /\ lastCall.outcome.kind = "ok"
  /\ Returned # <<>>
  /\ \E book_id \in Range(Matrix.columns) : Rating(lastCall.user_id, book_id) # 0

\* C7: get_user_recommendations for a user_id that is no row of the trained
\* matrix raises the lookup's KeyError and returns no candidate.
C7_UnknownUserRaises ==
  (lastCall.op = "recommend" /\ Trained /\ ~KnownUser(lastCall.user_id))
    => lastCall.outcome = Raises("KeyError")

\* C7's case: an unknown user asks a filter whose last train returned.
C7_Witness ==
  /\ lastCall.op = "recommend" /\ Trained /\ ~KnownUser(lastCall.user_id)
  /\ ~IsNone(published) /\ cf = PublishedFilter

DistinctUsers(data) == Cardinality({r.user_id : r \in data})
DistinctBooks(data) == Cardinality({r.book_id : r \in data})
MinDimension(data) ==
  IF DistinctUsers(data) < DistinctBooks(data)
  THEN DistinctUsers(data) ELSE DistinctBooks(data)

\* C8: a train whose n_components exceeds min(#users, #books) of the ratings
\* raises and leaves the filter as it was.
C8_InvalidRankRejected ==
  [][(lastCall'.op = "train" /\ lastCall.op = "none"
        /\ cf.n_components > MinDimension(lastCall'.data))
       => (lastCall'.outcome.kind # "ok" /\ cf' = cf)]_vars

ContentTrained == ~IsNone(cb.book_features)
RecommendOps == {"recommend", "content_recommend", "get_recommendations"}

\* C1: get_recommendations for a user_id that is no row of the trained
\* matrix returns the fusion of an empty collaborative list with the
\* content and social lists.
C1_UnknownUserFallsBack ==
  (/\ lastCall.op = "get_recommendations"
   /\ ~IsNone(published) /\ cf = PublishedFilter
   /\ ContentTrained
   /\ ~KnownUser(lastCall.user_id))
    => lastCall.outcome =
         Ok(SliceTo(combine_recommendations(
                      <<>>,
                      GetContentRecommendations(cb, lastCall.profile,
                                                lastCall.n * 2).value,
                      lastCall.social),
                    lastCall.n))

\* C5: a list get_recommendations returns for n >= 0 has at most n
\* candidates and none whose book_id is in profile.reading_history.
C5_AtMostNAndNotRead ==
  (lastCall.op = "get_recommendations" /\ lastCall.outcome.kind = "ok"
     /\ lastCall.n >= 0)
    => /\ Len(Returned) <= lastCall.n
       /\ BooksOf(Returned) \cap Range(lastCall.profile.reading_history) = {}

\* The error kind of a query before train, as get_user_recommendations
\* raises it (line 46).
UntrainedKind == "ValueError"

\* C6: both query methods raise the same kind before train, and neither a
\* train that rejects its input nor a query for an unknown user raises it.
C6_UntrainedErrorIsDistinct ==
  /\ (lastCall.op = "recommend" /\ ~Trained)
       => lastCall.outcome.kind = UntrainedKind
  /\ (lastCall.op = "content_recommend" /\ ~ContentTrained)
       => lastCall.outcome.kind = UntrainedKind
  /\ (lastCall.op = "train" /\ lastCall.outcome.kind # "ok")
       => lastCall.outcome.kind # UntrainedKind
  /\ (lastCall.op = "recommend" /\ Trained /\ ~KnownUser(lastCall.user_id))
       => lastCall.outcome.kind # UntrainedKind

\* C9: a recommend call of any of the three classes with n < 0 raises and
\* returns no list.
C9_NegativeNRejected ==
  (lastCall.op \in RecommendOps /\ lastCall.n < 0)
    => (lastCall.outcome.kind # "ok" /\ Returned = <<>>)

\* C2: a get_user_recommendations call that reads a field of the filter
\* while a train is in flight reads user_item_matrix and user_similarity as
\* written by one train (or both as constructed).
C2_ReadsOneModel ==
  (~IsNone(reading) /\ reading[1].overlap /\ Len(reading[1].read) = 2)
    => reading[1].read[1] = reading[1].read[2]

\* The score of book_id in a list of (book_id, score) pairs, 0 when the
\* list has no candidate for it.
ScoreIn(pairs, book_id) ==
  IF \E k \in 1..Len(pairs) : pairs[k][1] = book_id
  THEN pairs[CHOOSE k \in 1..Len(pairs) : pairs[k][1] = book_id][2]
  ELSE Zero

FusedBooks ==
  BooksOf(fusion[1].collab_recs) \cup BooksOf(fusion[1].content_recs)
    \cup BooksOf(fusion[1].social_recs)

\* C10: combine_recommendations returns, for every book_id of a list, a
\* candidate whose combined_score is 0.4*collab + 0.35*content + 0.25*social,
\* the score of a list without the book being 0.
C10_WeightedTotal ==
  ~IsNone(fusion) =>
    \A book_id \in FusedBooks :
      \E k \in 1..Len(fusion[1].result) :
        /\ fusion[1].result[k].book_id = book_id
        /\ fusion[1].result[k].combined_score =
             RAdd(RAdd(RMul(<<2, 5>>,
                            ScoreIn(CollabPairs(fusion[1].collab_recs), book_id)),
                       RMul(<<7, 20>>,
                            ScoreIn(ContentPairs(fusion[1].content_recs), book_id))),
                  RMul(<<1, 4>>,
                       ScoreIn(SocialPairs(fusion[1].social_recs), book_id)))

\* C10's case: one book is in all three lists with non-zero scores and
\* another in the social list alone.
C10_Witness ==
  /\ ~IsNone(fusion)
  /\ \E b1, b2 \in FusedBooks :
       /\ b1 \in BooksOf(fusion[1].collab_recs) \cap BooksOf(fusion[1].content_recs)
                   \cap BooksOf(fusion[1].social_recs)
       /\ ScoreIn(CollabPairs(fusion[1].collab_recs), b1) # Zero
       /\ ScoreIn(ContentPairs(fusion[1].content_recs), b1) # Zero
       /\ ScoreIn(SocialPairs(fusion[1].social_recs), b1) # Zero
       /\ b2 \notin BooksOf(fusion[1].collab_recs) \cup BooksOf(fusion[1].content_recs)
       /\ b2 \in BooksOf(fusion[1].social_recs)

\* C11: the list combine_recommendations returns is in descending order of
\* combined_score, and two candidates with equal combined_score are in
\* ascending order of book_id, whatever the order of the three input lists.
C11_OrderedByTotalThenId ==
  ~IsNone(fusion) =>
    \A k \in 1..(Len(fusion[1].result) - 1) :
      \/ RLess(fusion[1].result[k + 1].combined_score,
               fusion[1].result[k].combined_score)
      \/ /\ fusion[1].result[k + 1].combined_score
              = fusion[1].result[k].combined_score
         /\ fusion[1].result[k].book_id < fusion[1].result[k + 1].book_id

\* C12: the three weights an engine fuses with sum to exactly 1, and the
\* constructor of the engine asserted that they do.
C12_WeightsAssertedAtStartup ==
  ~IsNone(fusion) =>
    /\ RAdd(RAdd(CollabWeight, ContentWeight), SocialWeight) = <<1, 1>>
    /\ "fusion weights sum to 1.0" \in StartupAssertions

\* The sum of the values of a function over a finite set of its arguments.
RECURSIVE SumOf(_, _)
SumOf(f, S) ==
  IF S = {} THEN 0
  ELSE LET x == CHOOSE y \in S : TRUE
       IN  f[x] + SumOf(f, S \ {x})

\* The neighbours of a predict_rating call whose rating of the book is > 0.
RatedBy(matrix, similar_users) ==
  {k \in 1..Len(similar_users) : matrix.values[similar_users[k][1]][1] > 0}

\* C13: predict_rating returns sum(sim * rating) / sum(|sim|) over the
\* neighbours whose rating of the book is > 0, and 0 when that denominator
\* is 0.
C13_WeightedMeanOfRaters ==
  (~IsNone(scoring) /\ scoring[1].op = "predict_rating") =>
    LET matrix == scoring[1].matrix
        similar_users == scoring[1].similar_users
        rated == RatedBy(matrix, similar_users)
        numerator ==
          SumOf([k \in rated |->
                   similar_users[k][2] * matrix.values[similar_users[k][1]][1]],
                rated)
        denominator == SumOf([k \in rated |-> Abs(similar_users[k][2])], rated)
    IN  IF denominator = 0 THEN scoring[1].result = <<0, 1>>
        ELSE /\ scoring[1].result[2] > 0
             /\ scoring[1].result[1] * denominator
                  = numerator * scoring[1].result[2]

\* C13's case: of two neighbours with non-zero similarity one has rated the
\* book, with a negative similarity, and the other has not.
C13_Witness ==
  /\ ~IsNone(scoring) /\ scoring[1].op = "predict_rating"
  /\ Len(scoring[1].similar_users) = 2
  /\ \E k \in RatedBy(scoring[1].matrix, scoring[1].similar_users) :
       scoring[1].similar_users[k][2] < 0
  /\ \E k \in 1..2 :
       /\ k \notin RatedBy(scoring[1].matrix, scoring[1].similar_users)
       /\ scoring[1].similar_users[k][2] # 0
  /\ scoring[1].result # <<0, 1>>

\* The books of the matrix the user has a 0 cell for.
UnratedBooks(user_id) ==
  {book_id \in Range(Matrix.columns) : Rating(user_id, book_id) = 0}

\* A list of collaborative candidates in descending order of
\* predicted_rating, equal ratings in ascending order of book_id.
RankedByRatingThenId(recs) ==
  \A k \in 1..(Len(recs) - 1) :
    \/ RLess(recs[k + 1].predicted_rating, recs[k].predicted_rating)
    \/ /\ recs[k + 1].predicted_rating = recs[k].predicted_rating
       /\ recs[k].book_id < recs[k + 1].book_id

\* C14: for n >= 0 the list get_user_recommendations returns is in
\* descending order of predicted_rating with equal ratings in ascending
\* order of book_id, and it is the first n candidates (all when there are
\* fewer) of the list so ordered of all the books the user has not rated.
C14_FirstNOfRanking ==
  (lastCall.op = "recommend" /\ lastCall.outcome.kind = "ok" /\ lastCall.n >= 0)
    => /\ RankedByRatingThenId(Returned)
       /\ \E full \in RecommendOutcomes(cf, lastCall.user_id, Len(Matrix.columns)) :
            /\ full.kind = "ok"
            /\ RankedByRatingThenId(full.value)
            /\ BooksOf(full.value) = UnratedBooks(lastCall.user_id)
            /\ Len(full.value) = Cardinality(UnratedBooks(lastCall.user_id))
            /\ Len(Returned) = IF lastCall.n < Len(full.value)
                               THEN lastCall.n ELSE Len(full.value)
            /\ \A k \in 1..Len(Returned) : Returned[k] = full.value[k]

\* C14's case: the user has two unrated books with equal predicted ratings
\* and asks for one of them.
C14_Witness ==
  /\ lastCall.op = "recommend" /\ lastCall.outcome.kind = "ok"
  /\ lastCall.n = 1 /\ Len(Returned) = 1
  /\ Cardinality(UnratedBooks(lastCall.user_id)) = 2
  /\ \E full \in RecommendOutcomes(cf, lastCall.user_id, 2) :
       /\ Len(full.value) = 2
       /\ full.value[1].predicted_rating = full.value[2].predicted_rating
       /\ full.value[1].predicted_rating # Zero

\* C15: get_similar_users returns min(top_k, #users - 1) users, none of them
\* the user asked about, and no other user left out is more similar to that
\* user than one returned.
C15_MostSimilarOthers ==
  (~IsNone(scoring) /\ scoring[1].op = "get_similar_users") =>
    LET similarities == scoring[1].similarities
        user_idx == scoring[1].user_idx
        result == scoring[1].result
        others == (1..Len(similarities)) \ {user_idx}
        returned == {result[k][1] : k \in 1..Len(result)}
    IN  /\ Len(result) = IF scoring[1].top_k < Len(similarities) - 1
                         THEN scoring[1].top_k ELSE Len(similarities) - 1
        /\ Cardinality(returned) = Len(result)
        /\ user_idx \notin returned
        /\ \A k \in 1..Len(result) : result[k][2] = similarities[result[k][1]]
        /\ \A i \in others \ returned, j \in returned :
             similarities[i] <= similarities[j]

\* The content_similarity of two books of the trained catalog.
SimilarityOf(book_id, other_id) ==
  LET index == FeatureIndex(cb.book_features[1])
  IN  cb.content_similarity[1][GetLoc(index, book_id)][GetLoc(index, other_id)]

\* The read books of a profile that are in the trained catalog.
ReadInCatalog(user_profile) ==
  Range(user_profile.reading_history)
    \cap Range(FeatureIndex(cb.book_features[1]))

\* C16: calculate_content_score returns 0.4 for a preferred genre plus 0.3
\* for a favourite author plus 0.3 times the largest content_similarity of
\* the book to a read book of the catalog, that last term being 0 when no
\* read book is in the catalog; a book that matches the genre alone, with
\* an empty history, scores 0.4 and one that matches nothing 0.
C16_ContentScore ==
  (~IsNone(scoring) /\ scoring[1].op = "calculate_content_score") =>
    LET book_data == scoring[1].book_data
        user_profile == scoring[1].user_profile
        read == ReadInCatalog(user_profile)
        genre == IF book_data.genre \in user_profile.preferred_genres
                 THEN 4 ELSE 0
        author == IF book_data.author \in user_profile.favorite_authors
                  THEN 3 ELSE 0
        history == IF read = {} THEN 0
                   ELSE 3 * (CHOOSE x \in {SimilarityOf(book_data.book_id, h) : h \in read} :
                               \A h \in read : SimilarityOf(book_data.book_id, h) <= x)
    IN  /\ scoring[1].result[2] > 0
        /\ scoring[1].result[1] * 10 = (genre + author + history) * scoring[1].result[2]
        /\ (genre = 4 /\ author = 0 /\ user_profile.reading_history = <<>>)
             => scoring[1].result = <<2, 5>>
        /\ (genre = 0 /\ author = 0 /\ read = {})
             => scoring[1].result = <<0, 1>>

\* C16's case: a book of the preferred genre by a favourite author, scored
\* against a history of two books of the catalog, one it is not similar to
\* and one it is similar to.
C16_Witness ==
  /\ ~IsNone(scoring) /\ scoring[1].op = "calculate_content_score"
  /\ scoring[1].book_data.genre \in scoring[1].user_profile.preferred_genres
  /\ scoring[1].book_data.author \in scoring[1].user_profile.favorite_authors
  /\ \E h \in ReadInCatalog(scoring[1].user_profile) :
       SimilarityOf(scoring[1].book_data.book_id, h) = 0
  /\ \E h \in ReadInCatalog(scoring[1].user_profile) :
       SimilarityOf(scoring[1].book_data.book_id, h) = 1
  /\ scoring[1].result = <<1, 1>>

\* C17: for n >= 0 the list get_content_recommendations returns holds no
\* book of profile.reading_history and at most n candidates, in descending
\* order of content_score with equal scores in ascending order of book_id,
\* whatever the order of the rows of the catalog.
C17_ContentRankedByScoreThenId ==
  (lastCall.op = "content_recommend" /\ lastCall.outcome.kind = "ok"
     /\ lastCall.n >= 0)
    => /\ BooksOf(Returned) \cap Range(lastCall.profile.reading_history) = {}
       /\ Len(Returned) <= lastCall.n
       /\ \A k \in 1..(Len(Returned) - 1) :
            \/ RLess(Returned[k + 1].content_score, Returned[k].content_score)
            \/ /\ Returned[k + 1].content_score = Returned[k].content_score
               /\ Returned[k].book_id < Returned[k + 1].book_id

FirstN(s, n) == SubSeq(s, 1, IF n < Len(s) THEN n ELSE Len(s))

\* C20: for n >= 0, the list get_recommendations returns is the first n
\* candidates of combine_recommendations applied to the list the
\* collaborative filter returns when asked for 2n, the list the content
\* filter returns when asked for 2n and the list the social scorer
\* returned, of at most 2n candidates.
C20_FusesTwiceNAndKeepsN ==
  (lastCall.op = "get_recommendations" /\ lastCall.outcome.kind = "ok"
     /\ lastCall.n >= 0)
    => /\ Len(lastCall.social) <= 2 * lastCall.n
       /\ \E collab \in RecommendOutcomes(cf, lastCall.user_id, 2 * lastCall.n) :
            LET content == GetContentRecommendations(cb, lastCall.profile,
                                                     2 * lastCall.n)
            IN  /\ collab.kind = "ok"
                /\ content.kind = "ok"
                /\ Returned = FirstN(combine_recommendations(
                                       collab.value, content.value,
                                       lastCall.social),
                                     lastCall.n)

\* C20's case: asked for one book, the engine returns one, and the content
\* filter asked for two has two candidates.
C20_Witness ==
  /\ lastCall.op = "get_recommendations" /\ lastCall.outcome.kind = "ok"
  /\ lastCall.n = 1 /\ Len(Returned) = 1
  /\ Len(GetContentRecommendations(cb, lastCall.profile, 2).value) = 2
  /\ Len(lastCall.social) = 1

\* C21: in every execution of get_recommendations, combine_recommendations
\* is invoked only after the collaborative, the content and the social call
\* have all completed, and the list it fuses is the one the three scorers
\* give for the request whatever the order they completed in: the fusion of
\* the collaborative list, the content list and the social list of the
\* request's arguments on the filters as they are.
SubScorers == {"collaborative", "content", "social"}

CombineInvoked ==
  ~IsNone(request) /\ request[1].pc \in {"combine", "return"}

NoMatchingSignal(analysis, book_data) ==
  /\ \A mood \in DOMAIN analysis.mood_profile :
       RLess(Zero, analysis.mood_profile[mood])
         => book_data.genre \notin MoodGenreMap[mood]
  /\ \A k \in 1..Len(analysis.interest_keywords) :
       \A key \in analysis.interest_keywords[k] :
         book_data.genre \notin keyword_genre_map[key]

SocialScored == ~IsNone(scoring) /\ scoring[1].op = "social_score"

TrainedOnScenario ==
  cf.n_components = 1 /\ cf.user_item_matrix = Some(Pivot(ScenarioData))

C23_ScenarioRecommendsItemThree ==
  /\ (lastCall.op = "train" /\ lastCall.data = ScenarioData)
       => lastCall.outcome.kind = "ok"
  /\ (/\ lastCall.op = "recommend" /\ TrainedOnScenario
      /\ lastCall.user_id = 1 /\ lastCall.n = 1)
       => /\ lastCall.outcome.kind = "ok"
          /\ Len(Returned) = 1
          /\ Returned[1].book_id = 3
          /\ ~RLess(Returned[1].predicted_rating, Zero)

C23_Witness ==
  /\ lastCall.op = "recommend" /\ TrainedOnScenario
  /\ lastCall.user_id = 1 /\ lastCall.n = 1
  /\ lastCall.outcome.kind = "ok"
  /\ Returned[1].book_id = 3
  /\ Returned[1].predicted_rating = <<5, 1>>

\* C24: missing data is no error on a trained scorer.  get_similar_users
\* returns an empty list for a user with no other user; predict_rating
\* returns 0 for an empty neighbour list and for a book no neighbour rated;
\* calculate_content_score adds 0 for the history when reading_history is
\* empty or holds no book of the catalog; and get_user_recommendations for
\* a user of the matrix and get_content_recommendations on a trained filter
\* return a list.
Scored(op) == ~IsNone(scoring) /\ scoring[1].op = op

PreferenceScore(book_data, user_profile) ==
  RAdd(IF book_data.genre \in user_profile.preferred_genres
       THEN GenreWeight ELSE Zero,
       IF book_data.author \in user_profile.favorite_authors
       THEN AuthorWeight ELSE Zero)

C24_MissingDataScoresZero ==
  /\ (Scored("get_similar_users") /\ Len(scoring[1].similarities) = 1)
       => scoring[1].result = <<>>
  /\ (Scored("predict_rating")
        /\ RatedBy(scoring[1].matrix, scoring[1].similar_users) = {})
       => scoring[1].result = Zero
  /\ (Scored("calculate_content_score")
        /\ ReadInCatalog(scoring[1].user_profile) = {})
       => scoring[1].result
            = PreferenceScore(scoring[1].book_data, scoring[1].user_profile)
  /\ (lastCall.op = "recommend" /\ Trained /\ KnownUser(lastCall.user_id))
       => /\ lastCall.outcome.kind = "ok"
          /\ Len(Matrix.index) = 1
               => \A k \in 1..Len(Returned) : Returned[k].predicted_rating = Zero
  /\ (lastCall.op = "content_recommend" /\ ContentTrained)
       => /\ lastCall.outcome.kind = "ok"
          /\ ReadInCatalog(lastCall.profile) = {}
               => \A k \in 1..Len(Returned) :
                     Returned[k].content_score \in {Zero, GenreWeight}

\* C24's case: get_content_recommendations on a trained filter for a
\* profile whose reading_history holds a book of no row of the catalog
\* returns candidates, one of them scored for its genre alone.
C24_Witness ==
  /\ lastCall.op = "content_recommend" /\ ContentTrained
  /\ lastCall.profile.reading_history # <<>>
  /\ ReadInCatalog(lastCall.profile) = {}
  /\ lastCall.outcome.kind = "ok"
  /\ \E k \in 1..Len(Returned) : Returned[k].content_score = GenreWeight

\* C25: in every similarity matrix the filters compute (user, item and
\* content similarity) the similarity of a vector of norm 0 to any vector
\* is 0, no entry is NaN or infinite, and nothing is divided by 0.
C25_ZeroNormSimilarityIsZero ==
  Scored("cosine_similarity") =>
    LET X == scoring[1].X
        result == scoring[1].result
    IN  \A i, j \in 1..Len(X) :
          /\ result[i][j] # NaN
          /\ result[i][j][2] > 0
          /\ (Dot(X[i], X[i]) = 0 \/ Dot(X[j], X[j]) = 0)
               => result[i][j] = Zero

C25_Witness ==
  /\ Scored("cosine_similarity")
  /\ Len(scoring[1].X) = 3
  /\ scoring[1].X[1] = <<0, 0>>
  /\ scoring[1].X[2] = <<3, 4>>
  /\ scoring[1].X[3] = <<-3, 4>>
  /\ scoring[1].result[1] = <<Zero, Zero, Zero>>
  /\ scoring[1].result[2][3] = <<7, 25>>

ColumnsOf(catalog) == UNION {DOMAIN catalog[i] : i \in 1..Len(catalog)}

C27_TrainLeavesCatalog ==
  lastCall.op = "content_train_catalog" =>
    /\ ColumnsOf(lastCall.catalog) = ColumnsOf(lastCall.books_data)
    /\ lastCall.catalog = lastCall.books_data

\* C28: the book_ids of the list combine_recommendations returns are those
\* of the three lists it is handed, each in exactly one candidate, and
\* every candidate has recommendation_type 'hybrid'.
C28_FusesUnionOnce ==
  ~IsNone(fusion) =>
    LET result == fusion[1].result
    IN  /\ BooksOf(result) = FusedBooks
        /\ Len(result) = Cardinality(FusedBooks)
        /\ \A k \in 1..Len(result) : result[k].recommendation_type = "hybrid"

\* C28's case: a book of all three lists and a book of one list only.
C28_Witness ==
  /\ ~IsNone(fusion)
  /\ Len(fusion[1].result) = 2
  /\ \E b \in FusedBooks :
       b \in BooksOf(fusion[1].collab_recs) \cap BooksOf(fusion[1].content_recs)
               \cap BooksOf(fusion[1].social_recs)
  /\ \E b \in FusedBooks :
       /\ b \notin BooksOf(fusion[1].collab_recs) \cup BooksOf(fusion[1].social_recs)
       /\ b \in BooksOf(fusion[1].content_recs)

\* The largest rating of the book among the neighbours that rated it, 0
\* when none did.
LargestRating(matrix, similar_users) ==
  LET ratings == {matrix.values[similar_users[k][1]][1] :
                    k \in RatedBy(matrix, similar_users)}
  IN  IF ratings = {} THEN 0
      ELSE CHOOSE r \in ratings : \A q \in ratings : q <= r

====
